---- MODULE Spec2Model ----
(***************************************************************************)
(* Model of regex-test (src/src/index.ts): the explain-mode tokenizer      *)
(* explainRegex, the match engine testString and the CLI driver main.      *)
(*                                                                         *)
(* A JavaScript string is a sequence of one-character strings (UTF-16 code *)
(* units); indices are 0-based as in the source.  Text produced by a       *)
(* template literal is a sequence of chunks: the fixed text of the         *)
(* template as one chunk, interpolated strings spliced in unit by unit.    *)
(***************************************************************************)
EXTENDS Integers, Sequences, FiniteSets, TLC

VARIABLES
    \* explainRegex(pattern)
    pattern, i, parts, epc,
    \* testString(pattern, flags, input)
    tsPattern, tsFlags, input, lastIndex, matches, highlighted, tpc,
    \* main()
    argv, opts, strings, allResults, stdout, stderr, exitCode, pc

vars == <<pattern, i, parts, epc,
          tsPattern, tsFlags, input, lastIndex, matches, highlighted, tpc,
          argv, opts, strings, allResults, stdout, stderr, exitCode, pc>>

explainVars == <<pattern, i, parts, epc>>
testVars == <<tsPattern, tsFlags, input, lastIndex, matches, highlighted, tpc>>
mainVars == <<argv, opts, strings, allResults, stdout, stderr, exitCode, pc>>

----------------------------------------------------------------------------
(* Bounds of the model *)

\* longest pattern over GroupChars given to explainRegex
MaxGroupLen == 5
\* longest pattern over QuantChars given to explainRegex
MaxQuantLen == 4
\* longest pattern over MixedChars given to explainRegex
MaxMixedLen == 3
\* longest regex source given to testString
MaxPatLen == 2
\* longest surrogate-free input given to testString
MaxInputLen == 6
\* longest input with surrogate code units given to testString
MaxSurrLen == 3
\* most command-line arguments given to main
MaxArgs == 4

----------------------------------------------------------------------------
(* JavaScript string primitives *)

Min(a, b) == IF a < b THEN a ELSE b
Max(a, b) == IF a > b THEN a ELSE b

\* all sequences over S of length 0..n
SeqsUpTo(S, n) == UNION {[1..k -> S] : k \in 0..n}

\* s[k] || "": the unit at 0-based index k as a string, "" past the end
At(s, k) == IF k >= 0 /\ k < Len(s) THEN <<s[k + 1]>> ELSE <<>>

\* s.slice(a, b) for 0 <= a
Slice(s, a, b) == SubSeq(s, a + 1, Min(b, Len(s)))

\* s.slice(a)
SliceFrom(s, a) == SubSeq(s, a + 1, Len(s))

\* s.indexOf(ch, from): the least 0-based index >= from holding ch, or -1
IndexOf(s, ch, from) ==
    LET hits == {k \in from..(Len(s) - 1) : s[k + 1] = ch}
    IN IF hits = {} THEN -1 ELSE CHOOSE k \in hits : \A h \in hits : k <= h

\* s.includes(ch)
Includes(s, ch) == \E k \in 1..Len(s) : s[k] = ch

\* s.startsWith(ch)
StartsWith(s, ch) == Len(s) > 0 /\ s[1] = ch

\* s.split(sep): the segments between the occurrences of sep
RECURSIVE Split(_, _)
Split(s, sep) ==
    LET k == IndexOf(s, sep, 0)
    IN IF k = -1 THEN <<s>>
       ELSE <<Slice(s, 0, k)>> \o Split(SliceFrom(s, k + 1), sep)

\* the concatenation of a sequence of strings
RECURSIVE Flatten(_)
Flatten(ss) == IF ss = <<>> THEN <<>> ELSE Head(ss) \o Flatten(Tail(ss))

----------------------------------------------------------------------------
(* ANSI colors *)

c == [reset |-> "ESC[0m", bold |-> "ESC[1m", dim |-> "ESC[2m",
      red |-> "ESC[31m", green |-> "ESC[32m", yellow |-> "ESC[33m",
      blue |-> "ESC[34m", magenta |-> "ESC[35m", cyan |-> "ESC[36m",
      white |-> "ESC[37m", bgRed |-> "ESC[41m", bgGreen |-> "ESC[42m",
      bgYellow |-> "ESC[43m", bgBlue |-> "ESC[44m",
      bgMagenta |-> "ESC[45m", bgCyan |-> "ESC[46m"]

MATCH_COLORS == <<c.bgGreen, c.bgYellow, c.bgCyan, c.bgMagenta, c.bgBlue, c.bgRed>>

\* every color marker of the palette c
Markers == {c[k] : k \in DOMAIN c}

----------------------------------------------------------------------------
(* Regex explainer: explainRegex *)

ExplainPart(token, meaning) == [token |-> token, meaning |-> meaning]

\* one iteration's result: the part pushed and the new value of i
Emit(token, meaning, next) == [part |-> ExplainPart(token, meaning), next |-> next]

escapes == [d |-> "Any digit (0-9)", D |-> "Any non-digit",
            w |-> "Any word character (a-z, A-Z, 0-9, _)",
            W |-> "Any non-word character",
            s |-> "Any whitespace (space, tab, newline)",
            S |-> "Any non-whitespace", b |-> "Word boundary",
            B |-> "Non-word boundary", n |-> "Newline", t |-> "Tab",
            r |-> "Carriage return"]

\* the fixed single-character tokens
SingleMeaning(ch) ==
    CASE ch = "^" -> "Start of string/line"
      [] ch = "$" -> "End of string/line"
      [] ch = "." -> "Any character (except newline)"
      [] ch = "*" -> "Zero or more of the previous"
      [] ch = "+" -> "One or more of the previous"
      [] ch = "?" -> "Zero or one of the previous (optional)"
      [] ch = "|" -> "OR (alternative)"

Literal(text) == <<"Literal \"">> \o text \o <<"\"">>

\* ch === "\\"
ExplainEscape(p, k) ==
    LET next == At(p, k + 1)
        known == next # <<>> /\ next[1] \in DOMAIN escapes
    IN Emit(<<"\\">> \o next,
            IF known THEN <<escapes[next[1]]>> ELSE Literal(next),
            k + 2)

ExplainClassShort(p, k) ==
    LET found == IndexOf(p, "]", k)
        end == IF found = -1 THEN Len(p) ELSE found
        charClass == Slice(p, k, end)
        negated == At(p, k + 1) = <<"^">>
    IN Emit(charClass,
            IF negated THEN <<"Any character NOT in ">> \o charClass
                       ELSE <<"Any character in ">> \o charClass,
            end + 1)

\* ch === "["
ExplainClass(p, k) ==
    LET found == IndexOf(p, "]", k)
        end == IF found = -1 THEN Len(p) ELSE found
        charClass == Slice(p, k, end + 1)
        negated == At(p, k + 1) = <<"^">>
    IN Emit(charClass,
            IF negated THEN <<"Any character NOT in ">> \o charClass
                       ELSE <<"Any character in ">> \o charClass,
            end + 1)

\* the named-group branch: pattern[i + 1] === "?" && pattern[i + 2] === "<"
ExplainNamed(p, k) ==
    LET nameEnd == IndexOf(p, ">", k + 3)
    IN IF nameEnd # -1
       THEN LET name == Slice(p, k + 3, nameEnd)
            IN Emit(<<"(", "?", "<">> \o name \o <<">">>,
                    <<"Named capture group \"">> \o name \o <<"\" start">>,
                    nameEnd + 1)
       ELSE Emit(<<"(">>, <<"Capture group start">>, k + 1)

ExplainGroupNamedFirst(p, k) ==
    IF Slice(p, k, k + 3) = <<"(", "?", ":">>
    THEN Emit(<<"(", "?", ":">>, <<"Non-capturing group start">>, k + 3)
    ELSE IF At(p, k + 1) = <<"?">> /\ At(p, k + 2) = <<"<">>
    THEN ExplainNamed(p, k)
    ELSE IF Slice(p, k, k + 3) = <<"(", "?", "=">>
    THEN Emit(<<"(", "?", "=">>, <<"Positive lookahead start">>, k + 3)
    ELSE IF Slice(p, k, k + 3) = <<"(", "?", "!">>
    THEN Emit(<<"(", "?", "!">>, <<"Negative lookahead start">>, k + 3)
    ELSE Emit(<<"(">>, <<"Capture group start">>, k + 1)

ExplainGroupStuck(p, k) ==
    IF Slice(p, k, k + 3) = <<"(", "?", ":">>
    THEN Emit(<<"(", "?", ":">>, <<"Non-capturing group start">>, k + 3)
    ELSE Emit(<<"(">>, <<"Capture group start">>, k)

\* ch === "("
ExplainGroup(p, k) ==
    IF Slice(p, k, k + 3) = <<"(", "?", ":">>
    THEN Emit(<<"(", "?", ":">>, <<"Non-capturing group start">>, k + 3)
    ELSE IF Slice(p, k, k + 4) = <<"(", "?", "<", "=">>
    THEN Emit(<<"(", "?", "<", "=">>, <<"Positive lookbehind start">>, k + 4)
    ELSE IF Slice(p, k, k + 4) = <<"(", "?", "<", "!">>
    THEN Emit(<<"(", "?", "<", "!">>, <<"Negative lookbehind start">>, k + 4)
    ELSE IF Slice(p, k, k + 3) = <<"(", "?", "=">>
    THEN Emit(<<"(", "?", "=">>, <<"Positive lookahead start">>, k + 3)
    ELSE IF Slice(p, k, k + 3) = <<"(", "?", "!">>
    THEN Emit(<<"(", "?", "!">>, <<"Negative lookahead start">>, k + 3)
    ELSE IF At(p, k + 1) = <<"?">> /\ At(p, k + 2) = <<"<">>
    THEN ExplainNamed(p, k)
    ELSE Emit(<<"(">>, <<"Capture group start">>, k + 1)

\* ch === "{"
ExplainQuant(p, k) ==
    LET end == IndexOf(p, "}", k)
    IN IF end # -1
       THEN LET quant == Slice(p, k, end + 1)
                inner == Slice(p, k + 1, end)
            IN IF Includes(inner, ",")
               THEN LET segs == Split(inner, ",")
                        min == segs[1]
                        max == segs[2]
                    IN IF max = <<>>
                       THEN Emit(quant, min \o <<" or more of the previous">>, end + 1)
                       ELSE Emit(quant,
                                 <<"Between ">> \o min \o <<" and ">> \o max
                                     \o <<" of the previous">>,
                                 end + 1)
               ELSE Emit(quant, <<"Exactly ">> \o inner \o <<" of the previous">>, end + 1)
       ELSE Emit(<<"{">>, Literal(<<"{">>), k + 1)

\* the body of the scan loop at position k < pattern.length
ExplainAt(p, k) ==
    LET ch == p[k + 1]
    IN IF ch \in {"^", "$", ".", "*", "+", "?", "|"}
       THEN Emit(<<ch>>, <<SingleMeaning(ch)>>, k + 1)
       ELSE IF ch = "\\" THEN ExplainEscape(p, k)
       ELSE IF ch = "[" THEN ExplainClass(p, k)
       ELSE IF ch = "(" THEN ExplainGroup(p, k)
       ELSE IF ch = ")" THEN Emit(<<")">>, <<"Group end">>, k + 1)
       ELSE IF ch = "{" THEN ExplainQuant(p, k)
       ELSE Emit(<<ch>>, Literal(<<ch>>), k + 1)

\* explainRegex as a function: the parts pushed from position k on
RECURSIVE ExplainFrom(_, _)
ExplainFrom(p, k) ==
    IF k < Len(p)
    THEN LET e == ExplainAt(p, k) IN <<e.part>> \o ExplainFrom(p, e.next)
    ELSE <<>>

explainRegex(p) == ExplainFrom(p, 0)

\* pattern alphabets given to explainRegex
GroupChars == {"(", "?", ":", "<", "=", "!", ">", "a"}
QuantChars == {"{", "}", ",", "3", "\\", "[", "]", "^", "d"}

MixedChars == {"\\", "(", ")", "?", "<", ">", "[", "]", "{", "}"}

ExplainPatterns ==
    SeqsUpTo(GroupChars, MaxGroupLen) \cup SeqsUpTo(QuantChars, MaxQuantLen)
        \cup SeqsUpTo(MixedChars, MaxMixedLen)

ExplainInit ==
    /\ pattern \in ExplainPatterns
    /\ i = 0
    /\ parts = <<>>
    /\ epc = "loop"

\* one iteration of while (i < pattern.length)
ExplainIter ==
    /\ epc = "loop"
    /\ i < Len(pattern)
    /\ LET e == ExplainAt(pattern, i)
       IN /\ parts' = Append(parts, e.part)
          /\ i' = e.next
    /\ UNCHANGED <<pattern, epc>>

\* return parts
ExplainReturn ==
    /\ epc = "loop"
    /\ ~(i < Len(pattern))
    /\ epc' = "returned"
    /\ UNCHANGED <<pattern, i, parts>>

----------------------------------------------------------------------------
(* The host regex facility: new RegExp(pattern, flags) and regex.exec      *)
(* (ECMAScript RegExpInitialize and RegExpBuiltinExec, as Node's engine    *)
(* implements them).  The regex sources given to it are over RegexChars:   *)
(* "." is any character, "*" the greedy star, anything else a literal.     *)
(* "H" and "L" stand for a high and a low surrogate code unit; with the    *)
(* u flag an "H" followed by an "L" is one code point of two units.        *)

RegexChars == {"a", ".", "*"}
FlagChars == {"d", "g", "i", "m", "s", "u", "v", "y"}

\* the flags string names known flags, none twice, not both u and v
FlagsValid(flags) ==
    /\ \A k \in 1..Len(flags) : flags[k] \in FlagChars
    /\ \A k, j \in 1..Len(flags) : flags[k] = flags[j] => k = j
    /\ ~(Includes(flags, "u") /\ Includes(flags, "v"))

\* a "*" needs an atom before it ("Nothing to repeat")
SyntaxValid(src) ==
    \A k \in 1..Len(src) : src[k] = "*" => (k > 1 /\ src[k - 1] # "*")

\* the atoms of a valid source: each a character (or ".") and whether starred
RECURSIVE Atoms(_)
Atoms(src) ==
    IF src = <<>> THEN <<>>
    ELSE IF Len(src) >= 2 /\ src[2] = "*"
         THEN <<[ch |-> src[1], star |-> TRUE]>> \o Atoms(SubSeq(src, 3, Len(src)))
         ELSE <<[ch |-> src[1], star |-> FALSE]>> \o Atoms(Tail(src))

\* new RegExp(src, flags): the compiled matcher, or the SyntaxError thrown
NewRegExp(src, flags) ==
    IF FlagsValid(flags) /\ SyntaxValid(src)
    THEN [ok |-> TRUE, atoms |-> Atoms(src),
          global |-> Includes(flags, "g"),
          sticky |-> Includes(flags, "y"),
          unicode |-> Includes(flags, "u")]
    ELSE [ok |-> FALSE]

\* pos is the trail unit of a surrogate pair
InPair(str, pos) == pos >= 1 /\ pos < Len(str) /\ str[pos] = "H" /\ str[pos + 1] = "L"

\* units of the character at pos: 2 for a surrogate pair read with the u flag
CharLen(str, pos, u) ==
    IF u /\ pos + 1 < Len(str) /\ str[pos + 1] = "H" /\ str[pos + 2] = "L" THEN 2 ELSE 1

\* atom a matches the character at pos
Consumes(a, str, pos, u) ==
    /\ pos < Len(str)
    /\ \/ a.ch = "."
       \/ CharLen(str, pos, u) = 1 /\ str[pos + 1] = a.ch

\* the backtracking matcher: the end of the first match of atoms k.. at pos, or -1
RECURSIVE MatchFrom(_, _, _, _, _)
MatchFrom(atoms, k, str, pos, u) ==
    IF k > Len(atoms) THEN pos
    ELSE LET a == atoms[k]
             step == pos + CharLen(str, pos, u)
         IN IF ~Consumes(a, str, pos, u)
            THEN IF a.star THEN MatchFrom(atoms, k + 1, str, pos, u) ELSE -1
            ELSE IF ~a.star THEN MatchFrom(atoms, k + 1, str, step, u)
            ELSE LET more == MatchFrom(atoms, k, str, step, u)
                 IN IF more # -1 THEN more
                    ELSE MatchFrom(atoms, k + 1, str, pos, u)

\* the scan of RegExpBuiltinExec from index from: [index, end] or [index |-> -1]
RECURSIVE Search(_, _, _)
Search(re, str, from) ==
    IF from > Len(str) THEN [index |-> -1, end |-> -1]
    ELSE LET e == MatchFrom(re.atoms, 1, str, from, re.unicode)
         IN IF e # -1 THEN [index |-> from, end |-> e]
            ELSE IF re.sticky THEN [index |-> -1, end |-> -1]
            ELSE Search(re, str, from + CharLen(str, from, re.unicode))

\* regex.exec(str) with regex.lastIndex = li: the match (or null) and the new lastIndex.
\* With the u flag a lastIndex inside a surrogate pair starts at the pair's lead unit.
Exec(re, str, li) ==
    LET from0 == IF re.global \/ re.sticky THEN li ELSE 0
        from == IF re.unicode /\ InPair(str, from0) THEN from0 - 1 ELSE from0
        m == Search(re, str, from)
        tracked == re.global \/ re.sticky
    IN IF m.index = -1
       THEN [found |-> FALSE, index |-> -1, end |-> -1,
             lastIndex |-> IF tracked THEN 0 ELSE li]
       ELSE [found |-> TRUE, index |-> m.index, end |-> m.end,
             lastIndex |-> IF tracked THEN m.end ELSE li]

----------------------------------------------------------------------------
(* Match processing: testString *)

MatchRecordAtEnd(str, m) ==
    [full |-> Slice(str, m.index, m.end), index |-> m.end,
     groups |-> <<>>, namedGroups |-> <<>>]

\* the record pushed for a match; the modelled sources declare no groups
MatchRecord(str, m) ==
    [full |-> Slice(str, m.index, m.end), index |-> m.index,
     groups |-> <<>>, namedGroups |-> <<>>]

\* if (match[0].length === 0) regex.lastIndex++
AfterMatch(m) == IF m.end = m.index THEN m.lastIndex + 1 ELSE m.lastIndex

HighlightNoCycle(str, ms, mi, lastEnd) ==
    LET m == ms[mi + 1]
        color == MATCH_COLORS[Min(mi, Len(MATCH_COLORS) - 1) + 1]
    IN [text |-> Slice(str, lastEnd, m.index) \o <<color, c.bold>> \o m.full \o <<c.reset>>,
        lastEnd |-> m.index + Len(m.full)]

\* the body of the highlight loop for match mi (0-based): the text added, the new lastEnd
HighlightOne(str, ms, mi, lastEnd) ==
    LET m == ms[mi + 1]
        color == MATCH_COLORS[(mi % Len(MATCH_COLORS)) + 1]
    IN [text |-> Slice(str, lastEnd, m.index) \o <<color, c.bold>> \o m.full \o <<c.reset>>,
        lastEnd |-> m.index + Len(m.full)]

RECURSIVE HighlightLoop(_, _, _, _)
HighlightLoop(str, ms, mi, lastEnd) ==
    IF mi < Len(ms)
    THEN LET h == HighlightOne(str, ms, mi, lastEnd)
         IN h.text \o HighlightLoop(str, ms, mi + 1, h.lastEnd)
    ELSE SliceFrom(str, lastEnd)

\* result.highlighted
Highlight(str, ms) == IF Len(ms) > 0 THEN HighlightLoop(str, ms, 0, 0) ELSE str

\* the most matches the model lets one call collect
MaxMatches == Max(MaxInputLen, MaxSurrLen) + 3

TestPatterns == SeqsUpTo(RegexChars, MaxPatLen)
TestFlags == {<<>>, <<"g">>, <<"g", "u">>, <<"g", "y">>, <<"y">>, <<"x">>}
TestInputs == SeqsUpTo({"a", "b"}, MaxInputLen) \cup SeqsUpTo({"a", "H", "L"}, MaxSurrLen)

TestInit ==
    /\ tsPattern \in TestPatterns
    /\ tsFlags \in TestFlags
    /\ input \in TestInputs
    /\ lastIndex = 0
    /\ matches = <<>>
    /\ highlighted = input
    /\ tpc = "compile"

\* new RegExp(pattern, flags) throws: console.error, process.exit(1)
TestInvalid ==
    /\ tpc = "compile"
    /\ ~NewRegExp(tsPattern, tsFlags).ok
    /\ tpc' = "exit1"
    /\ UNCHANGED <<tsPattern, tsFlags, input, lastIndex, matches, highlighted>>

TestCompiled ==
    /\ tpc = "compile"
    /\ NewRegExp(tsPattern, tsFlags).ok
    /\ tpc' = "collect"
    /\ UNCHANGED <<tsPattern, tsFlags, input, lastIndex, matches, highlighted>>

\* one iteration of while ((match = regex.exec(input)) !== null)
TestGlobalMatch ==
    /\ tpc = "collect"
    /\ Includes(tsFlags, "g")
    /\ Len(matches) < MaxMatches
    /\ LET m == Exec(NewRegExp(tsPattern, tsFlags), input, lastIndex)
       IN /\ m.found
          /\ matches' = Append(matches, MatchRecord(input, m))
          /\ lastIndex' = AfterMatch(m)
    /\ UNCHANGED <<tsPattern, tsFlags, input, highlighted, tpc>>

\* regex.exec(input) returns null: the loop ends
TestGlobalEnd ==
    /\ tpc = "collect"
    /\ Includes(tsFlags, "g")
    /\ LET m == Exec(NewRegExp(tsPattern, tsFlags), input, lastIndex)
       IN /\ ~m.found
          /\ lastIndex' = m.lastIndex
    /\ tpc' = "highlight"
    /\ UNCHANGED <<tsPattern, tsFlags, input, matches, highlighted>>

\* without the g flag: one regex.exec(input)
TestSingle ==
    /\ tpc = "collect"
    /\ ~Includes(tsFlags, "g")
    /\ LET m == Exec(NewRegExp(tsPattern, tsFlags), input, lastIndex)
       IN /\ matches' = IF m.found THEN Append(matches, MatchRecord(input, m)) ELSE matches
          /\ lastIndex' = m.lastIndex
    /\ tpc' = "highlight"
    /\ UNCHANGED <<tsPattern, tsFlags, input, highlighted>>

\* build the highlighted string; return result
TestHighlight ==
    /\ tpc = "highlight"
    /\ highlighted' = Highlight(input, matches)
    /\ tpc' = "returned"
    /\ UNCHANGED <<tsPattern, tsFlags, input, lastIndex, matches>>

\* testString as a function, for main: "exit1" when new RegExp throws, "diverged"
\* when the collection loop passes MaxMatches matches, else the MatchResult
RECURSIVE CollectAll(_, _, _, _)
CollectAll(re, str, li, ms) ==
    IF Len(ms) >= MaxMatches THEN [diverged |-> TRUE, matches |-> ms]
    ELSE LET m == Exec(re, str, li)
         IN IF m.found
            THEN CollectAll(re, str, AfterMatch(m), Append(ms, MatchRecord(str, m)))
            ELSE [diverged |-> FALSE, matches |-> ms]

testString(pat, flags, str) ==
    LET re == NewRegExp(pat, flags)
    IN IF ~re.ok THEN [status |-> "exit1"]
       ELSE LET got == IF Includes(flags, "g")
                       THEN CollectAll(re, str, 0, <<>>)
                       ELSE LET m == Exec(re, str, 0)
                            IN [diverged |-> FALSE,
                                matches |-> IF m.found THEN <<MatchRecord(str, m)>> ELSE <<>>]
            IN IF got.diverged THEN [status |-> "diverged"]
               ELSE [status |-> "returned",
                     result |-> [input |-> str, matches |-> got.matches,
                                 highlighted |-> Highlight(str, got.matches)]]

----------------------------------------------------------------------------
(* Arg parsing: parseArgs *)

ArgHelp == <<"-", "-", "h", "e", "l", "p">>
ArgH == <<"-", "h">>
ArgJson == <<"-", "-", "j", "s", "o", "n">>
ArgExplain == <<"-", "-", "e", "x", "p", "l", "a", "i", "n">>
ArgFlags == <<"-", "-", "f", "l", "a", "g", "s">>
ArgBulk == <<"-", "-", "b", "u", "l", "k">>

\* opts.bulk is undefined, or a non-empty path: "" stands for undefined (both falsy)
DefaultOpts ==
    [help |-> FALSE, json |-> FALSE, pattern |-> <<>>, strings |-> <<>>,
     flags |-> <<"g">>, bulk |-> <<>>, explain |-> FALSE]

\* the while loop of parseArgs from index k with the options o so far
RECURSIVE ParseFrom(_, _, _)
ParseFrom(args, k, o) ==
    IF ~(k < Len(args)) THEN o
    ELSE LET a == args[k + 1]
             hasNext == k + 1 < Len(args) /\ args[k + 2] # <<>>
         IN IF a = ArgHelp \/ a = ArgH
            THEN ParseFrom(args, k + 1, [o EXCEPT !.help = TRUE])
            ELSE IF a = ArgJson
            THEN ParseFrom(args, k + 1, [o EXCEPT !.json = TRUE])
            ELSE IF a = ArgExplain
            THEN ParseFrom(args, k + 1, [o EXCEPT !.explain = TRUE])
            ELSE IF a = ArgFlags /\ hasNext
            THEN ParseFrom(args, k + 2, [o EXCEPT !.flags = args[k + 2]])
            ELSE IF a = ArgBulk /\ hasNext
            THEN ParseFrom(args, k + 2, [o EXCEPT !.bulk = args[k + 2]])
            ELSE IF o.pattern = <<>> /\ ~StartsWith(a, "-")
            THEN ParseFrom(args, k + 1, [o EXCEPT !.pattern = a])
            ELSE IF o.pattern # <<>> /\ ~StartsWith(a, "-")
            THEN ParseFrom(args, k + 1, [o EXCEPT !.strings = Append(@, a)])
            ELSE ParseFrom(args, k + 1, o)

parseArgs(args) == ParseFrom(args, 0, DefaultOpts)

----------------------------------------------------------------------------
(* Output: each console.log / console.error call is one entry, with whether *)
(* its text holds color markers and the data it prints.                     *)

Out(kind, colored, data) == [kind |-> kind, colored |-> colored, data |-> data]

HasMarker(text) == \E k \in 1..Len(text) : text[k] \in Markers

\* console.log(HELP)
HELP == Out("help", TRUE, <<>>)

\* the explain-mode block of main: title, pattern, one line per part, ""
ExplainOutput(pat) ==
    LET ps == explainRegex(pat)
    IN <<Out("breakdownTitle", TRUE, <<>>), Out("breakdownPattern", TRUE, pat)>>
       \o [k \in 1..Len(ps) |-> Out("breakdownPart", TRUE, ps[k].token)]
       \o <<Out("blank", FALSE, <<>>)>>

\* the run header: title and /pattern/flags
HeaderOutput(o) ==
    <<Out("title", TRUE, <<>>), Out("pattern", TRUE, o.pattern \o <<"/">> \o o.flags)>>

\* renderResult(result): count, input, highlighted, then one line per match
renderResult(result) ==
    <<Out("resultCount", TRUE, <<Len(result.matches)>>),
      Out("resultInput", TRUE, result.input),
      Out("resultHighlighted", TRUE, result.highlighted)>>
    \o [k \in 1..Len(result.matches) |-> Out("match", TRUE, result.matches[k].full)]

\* allResults.map(r => ({input, matchCount, matches}))
JsonOut(results) ==
    [k \in 1..Len(results) |->
        [input |-> results[k].input,
         matchCount |-> Len(results[k].matches),
         matches |-> results[k].matches]]

\* console.log(JSON.stringify(jsonOut, null, 2)): colored only by what the data holds
JsonOutput(results) ==
    LET doc == JsonOut(results)
    IN Out("json",
           \E k \in 1..Len(doc) :
               \/ HasMarker(doc[k].input)
               \/ \E j \in 1..Len(doc[k].matches) : HasMarker(doc[k].matches[j].full),
           doc)

SummaryOutput(results, strs) ==
    Out("summary", TRUE,
        <<Cardinality({k \in 1..Len(results) : Len(results[k].matches) > 0}), Len(strs)>>)

\* content.split("\n").filter(Boolean)
Lines(content) == SelectSeq(Split(content, "\n"), LAMBDA line : line # <<>>)

----------------------------------------------------------------------------
(* Main *)

\* the words a command line is made of
ArgWords == {ArgHelp, ArgJson, ArgExplain, ArgFlags, ArgBulk,
             <<"a", "*">>, <<"*">>, <<"g", "u">>, <<"H", "L">>}

\* what readFileSync(opts.bulk, "utf-8") can do: throw, or return the file's text
Unreadable == [ok |-> FALSE, content |-> <<>>]
FileReads == {Unreadable,
              [ok |-> TRUE, content |-> <<>>],
              [ok |-> TRUE, content |-> <<"\n">>],
              [ok |-> TRUE, content |-> <<"a", "\n", "\n", "H", "L">>]}

MainInit ==
    /\ argv \in SeqsUpTo(ArgWords, MaxArgs)
    /\ opts = DefaultOpts
    /\ strings = <<>>
    /\ allResults = <<>>
    /\ stdout = <<>>
    /\ stderr = <<>>
    /\ exitCode = -1
    /\ pc = "start"

\* const opts = parseArgs(process.argv.slice(2))
MainParse ==
    /\ pc = "start"
    /\ opts' = parseArgs(argv)
    /\ pc' = "checks"
    /\ UNCHANGED <<argv, strings, allResults, stdout, stderr, exitCode>>

\* if (opts.help): print HELP, process.exit(0)
MainHelp ==
    /\ pc = "checks"
    /\ opts.help
    /\ stdout' = Append(stdout, HELP)
    /\ exitCode' = 0
    /\ pc' = "exit"
    /\ UNCHANGED <<argv, opts, strings, allResults, stderr>>

MainNoPatternFirst ==
    /\ pc = "checks"
    /\ opts.pattern = <<>>
    /\ stderr' = stderr \o <<Out("noPattern", TRUE, <<>>), Out("hint", TRUE, <<>>)>>
    /\ exitCode' = 1
    /\ pc' = "exit"
    /\ UNCHANGED <<argv, opts, strings, allResults, stdout>>

\* if (!opts.pattern): error, process.exit(1)
MainNoPattern ==
    /\ pc = "checks"
    /\ ~opts.help
    /\ opts.pattern = <<>>
    /\ stderr' = stderr \o <<Out("noPattern", TRUE, <<>>), Out("hint", TRUE, <<>>)>>
    /\ exitCode' = 1
    /\ pc' = "exit"
    /\ UNCHANGED <<argv, opts, strings, allResults, stdout>>

\* if (opts.explain): print the breakdown; exit 0 when there is nothing to test
MainExplain ==
    /\ pc = "checks"
    /\ ~opts.help
    /\ opts.pattern # <<>>
    /\ opts.explain
    /\ stdout' = stdout \o ExplainOutput(opts.pattern)
    /\ IF Len(opts.strings) = 0 /\ opts.bulk = <<>>
       THEN exitCode' = 0 /\ pc' = "exit"
       ELSE exitCode' = exitCode /\ pc' = "bulk"
    /\ UNCHANGED <<argv, opts, strings, allResults, stderr>>

\* explain mode is off
MainSkipExplain ==
    /\ pc = "checks"
    /\ ~opts.help
    /\ opts.pattern # <<>>
    /\ ~opts.explain
    /\ pc' = "bulk"
    /\ UNCHANGED <<argv, opts, strings, allResults, stdout, stderr, exitCode>>

\* let strings = opts.strings, without --bulk
MainStrings ==
    /\ pc = "bulk"
    /\ opts.bulk = <<>>
    /\ strings' = opts.strings
    /\ pc' = "strings"
    /\ UNCHANGED <<argv, opts, allResults, stdout, stderr, exitCode>>

\* bulk mode: the file's non-empty lines replace the strings, or the read fails
MainBulk ==
    /\ pc = "bulk"
    /\ opts.bulk # <<>>
    /\ \E read \in FileReads :
        IF read.ok
        THEN /\ strings' = Lines(read.content)
             /\ pc' = "strings"
             /\ UNCHANGED <<stderr, exitCode>>
        ELSE /\ stderr' = Append(stderr, Out("readError", TRUE, <<>>))
             /\ exitCode' = 1
             /\ pc' = "exit"
             /\ UNCHANGED strings
    /\ UNCHANGED <<argv, opts, allResults, stdout>>

\* if (strings.length === 0): error, process.exit(1)
MainNoStrings ==
    /\ pc = "strings"
    /\ Len(strings) = 0
    /\ stderr' = Append(stderr, Out("noStrings", TRUE, <<>>))
    /\ exitCode' = 1
    /\ pc' = "exit"
    /\ UNCHANGED <<argv, opts, strings, allResults, stdout>>

\* print the run header
MainHeader ==
    /\ pc = "strings"
    /\ Len(strings) # 0
    /\ stdout' = stdout \o HeaderOutput(opts)
    /\ pc' = "loop"
    /\ UNCHANGED <<argv, opts, strings, allResults, stderr, exitCode>>

\* one iteration of for (const str of strings)
MainTest ==
    /\ pc = "loop"
    /\ Len(allResults) < Len(strings)
    /\ LET t == testString(opts.pattern, opts.flags, strings[Len(allResults) + 1])
       IN IF t.status = "exit1"
          THEN /\ stderr' = Append(stderr, Out("invalidRegex", TRUE, <<>>))
               /\ exitCode' = 1
               /\ pc' = "exit"
               /\ UNCHANGED <<allResults, stdout>>
          ELSE IF t.status = "diverged"
          THEN /\ pc' = "diverged"
               /\ UNCHANGED <<allResults, stdout, stderr, exitCode>>
          ELSE /\ allResults' = Append(allResults, t.result)
               /\ stdout' = IF ~opts.json THEN stdout \o renderResult(t.result) ELSE stdout
               /\ UNCHANGED <<stderr, exitCode, pc>>
    /\ UNCHANGED <<argv, opts, strings>>

\* after the loop: the JSON document, the summary, the closing empty line
MainFinish ==
    /\ pc = "loop"
    /\ Len(allResults) = Len(strings)
    /\ stdout' = stdout
                 \o (IF opts.json THEN <<JsonOutput(allResults)>> ELSE <<>>)
                 \o (IF Len(strings) > 1 /\ ~opts.json
                     THEN <<SummaryOutput(allResults, strings)>> ELSE <<>>)
                 \o <<Out("blank", FALSE, <<>>)>>
    /\ exitCode' = 0
    /\ pc' = "exit"
    /\ UNCHANGED <<argv, opts, strings, allResults, stderr>>

----------------------------------------------------------------------------
(* Specifications: one per entry point; the other entry points' state is idle *)

ExplainIdle == pattern = <<>> /\ i = 0 /\ parts = <<>> /\ epc = "idle"
TestIdle ==
    /\ tsPattern = <<>> /\ tsFlags = <<>> /\ input = <<>> /\ lastIndex = 0
    /\ matches = <<>> /\ highlighted = <<>> /\ tpc = "idle"
MainIdle ==
    /\ argv = <<>> /\ opts = DefaultOpts /\ strings = <<>> /\ allResults = <<>>
    /\ stdout = <<>> /\ stderr = <<>> /\ exitCode = -1 /\ pc = "idle"

InitExplain == ExplainInit /\ TestIdle /\ MainIdle
NextExplain ==
    \/ ExplainIter /\ UNCHANGED <<testVars, mainVars>>
    \/ ExplainReturn /\ UNCHANGED <<testVars, mainVars>>
SpecExplain == InitExplain /\ [][NextExplain]_vars

InitTest == ExplainIdle /\ TestInit /\ MainIdle
NextTest ==
    \/ TestInvalid /\ UNCHANGED <<explainVars, mainVars>>
    \/ TestCompiled /\ UNCHANGED <<explainVars, mainVars>>
    \/ TestGlobalMatch /\ UNCHANGED <<explainVars, mainVars>>
    \/ TestGlobalEnd /\ UNCHANGED <<explainVars, mainVars>>
    \/ TestSingle /\ UNCHANGED <<explainVars, mainVars>>
    \/ TestHighlight /\ UNCHANGED <<explainVars, mainVars>>
SpecTest == InitTest /\ [][NextTest]_vars

InitMain == ExplainIdle /\ TestIdle /\ MainInit
NextMain ==
    \/ MainParse /\ UNCHANGED <<explainVars, testVars>>
    \/ MainHelp /\ UNCHANGED <<explainVars, testVars>>
    \/ MainNoPattern /\ UNCHANGED <<explainVars, testVars>>
    \/ MainExplain /\ UNCHANGED <<explainVars, testVars>>
    \/ MainSkipExplain /\ UNCHANGED <<explainVars, testVars>>
    \/ MainStrings /\ UNCHANGED <<explainVars, testVars>>
    \/ MainBulk /\ UNCHANGED <<explainVars, testVars>>
    \/ MainNoStrings /\ UNCHANGED <<explainVars, testVars>>
    \/ MainHeader /\ UNCHANGED <<explainVars, testVars>>
    \/ MainTest /\ UNCHANGED <<explainVars, testVars>>
    \/ MainFinish /\ UNCHANGED <<explainVars, testVars>>
SpecMain == InitMain /\ [][NextMain]_vars

----------------------------------------------------------------------------
(* Properties of explainRegex, under SpecExplain *)

TokenTexts == [k \in 1..Len(parts) |-> parts[k].token]

\* C1: the tokens are non-empty and, concatenated in order, are exactly the part
\* of the pattern scanned so far (no gap, no overlap); on return they are exactly
\* the pattern, whatever the pattern.
C1_TokensCoverPattern ==
    /\ \A k \in 1..Len(parts) : parts[k].token # <<>>
    /\ Flatten(TokenTexts) = Slice(pattern, 0, i)
    /\ epc = "returned" => Flatten(TokenTexts) = pattern

\* a returned scan that ended on a trailing backslash after a multi-character token
C1_Witness ==
    /\ epc = "returned"
    /\ Len(parts) >= 2
    /\ parts[Len(parts)].token = <<"\\">>
    /\ \E k \in 1..Len(parts) : Len(parts[k].token) >= 2

\* C2: every iteration of the scan loop pushes exactly one token and moves i
\* forward by at least one, and there are never more tokens than characters, so
\* the loop ends within length(pattern) iterations.
C2_ScanTerminates ==
    /\ [](Len(parts) <= Len(pattern) /\ Len(parts) <= i)
    /\ [][parts' # parts => (i' >= i + 1 /\ Len(parts') = Len(parts) + 1
                              /\ SubSeq(parts', 1, Len(parts)) = parts)]_vars
    /\ [][epc = "loop" /\ epc' = "returned" => ~(i < Len(pattern))]_vars

\* a returned scan whose last step moved i past the end of the pattern
C2_Witness ==
    /\ epc = "returned"
    /\ i > Len(pattern)
    /\ Len(parts) >= 2
    /\ Len(parts) < Len(pattern)

\* pre is the text at the start of str
IsPrefix(pre, str) == Len(pre) <= Len(str) /\ SubSeq(str, 1, Len(pre)) = pre

\* the fixed group openers of the claim, in its priority order
GroupRules ==
    << [prefix |-> <<"(", "?", ":">>, meaning |-> "Non-capturing group start"],
       [prefix |-> <<"(", "?", "<", "=">>, meaning |-> "Positive lookbehind start"],
       [prefix |-> <<"(", "?", "<", "!">>, meaning |-> "Negative lookbehind start"],
       [prefix |-> <<"(", "?", "=">>, meaning |-> "Positive lookahead start"],
       [prefix |-> <<"(", "?", "!">>, meaning |-> "Negative lookahead start"] >>

\* what the claim says is emitted for the text rest, which starts with "("
GroupExpected(rest) ==
    LET fixed == {k \in 1..Len(GroupRules) : IsPrefix(GroupRules[k].prefix, rest)}
        closers == {k \in 4..Len(rest) : rest[k] = ">"}
    IN IF fixed # {}
       THEN LET k == CHOOSE x \in fixed : \A y \in fixed : x <= y
            IN ExplainPart(GroupRules[k].prefix, <<GroupRules[k].meaning>>)
       ELSE IF IsPrefix(<<"(", "?", "<">>, rest) /\ closers # {}
       THEN LET close == CHOOSE x \in closers : \A y \in closers : x <= y
                name == SubSeq(rest, 4, close - 1)
            IN ExplainPart(SubSeq(rest, 1, close),
                           <<"Named capture group \"">> \o name \o <<"\" start">>)
       ELSE ExplainPart(<<"(">>, <<"Capture group start">>)

\* C8: at a "(" the scan emits exactly the construct the priority order picks
\* (non-capturing, lookbehinds, lookaheads, named group up to the next ">", plain
\* group otherwise), and advances by exactly the length of the emitted token.
C8_GroupDisambiguation ==
    [][(epc = "loop" /\ i < Len(pattern) /\ parts' # parts
            /\ At(pattern, i) = <<"(">>)
        => LET emitted == parts'[Len(parts')]
           IN /\ emitted = GroupExpected(SliceFrom(pattern, i))
              /\ i' = i + Len(emitted.token)]_vars

\* a scan that has emitted a named group with a non-empty name
C8_Witness ==
    \E k \in 1..Len(parts) :
        /\ parts[k].meaning[1] = "Named capture group \""
        /\ Len(parts[k].token) >= 5

\* what the claim says is the meaning of a "{...}" token with interior inner
QuantExpected(inner) ==
    LET comma == IndexOf(inner, ",", 0)
        min == Slice(inner, 0, comma)
        max == SliceFrom(inner, comma + 1)
    IN IF comma = -1 THEN <<"Exactly ">> \o inner \o <<" of the previous">>
       ELSE IF max = <<>> THEN min \o <<" or more of the previous">>
       ELSE <<"Between ">> \o min \o <<" and ">> \o max \o <<" of the previous">>

\* C9: a token starting with "{" is either the whole "{...}" span up to the next
\* "}", meaning "Exactly n", "min or more" or "Between min and max" with the
\* interior text passed through as it is, or the lone literal "{".
C9_QuantMeaning ==
    \A k \in 1..Len(parts) :
        LET tok == parts[k].token
        IN tok[1] = "{" =>
            IF Len(tok) = 1
            THEN parts[k].meaning = Literal(<<"{">>)
            ELSE /\ tok[Len(tok)] = "}"
                 /\ ~Includes(SubSeq(tok, 2, Len(tok) - 1), "}")
                 /\ parts[k].meaning = QuantExpected(SubSeq(tok, 2, Len(tok) - 1))

----------------------------------------------------------------------------
(* Properties of testString, under SpecTest *)

MatchEnd(m) == m.index + Len(m.full)

\* C3: in a returned MatchResult every match lies inside the input, and the
\* matches are in strictly increasing index order, each starting at or after the
\* end of the one before.
C3_MatchesOrdered ==
    tpc = "returned" =>
        /\ \A k \in 1..Len(matches) :
              /\ matches[k].index >= 0
              /\ MatchEnd(matches[k]) <= Len(input)
              /\ matches[k].full = Slice(input, matches[k].index, MatchEnd(matches[k]))
        /\ \A k \in 1..(Len(matches) - 1) :
              /\ matches[k].index < matches[k + 1].index
              /\ MatchEnd(matches[k]) <= matches[k + 1].index

\* a returned global run with an empty match followed by a non-empty one
C3_Witness ==
    /\ tpc = "returned"
    /\ Len(matches) >= 3
    /\ \E k \in 1..(Len(matches) - 1) :
          matches[k].full = <<>> /\ matches[k + 1].full # <<>>

\* C4: with the g flag the collection loop holds at most length(input) + 1
\* matches at any time (so it ends); without it at most one match is produced.
C4_CollectionBounded ==
    tpc \in {"collect", "highlight", "returned"} =>
        IF Includes(tsFlags, "g")
        THEN Len(matches) <= Len(input) + 1
        ELSE Len(matches) <= 1

Strip(text) == SelectSeq(text, LAMBDA x : x \notin Markers)
ColorsOf(text) == SelectSeq(text, LAMBDA x : \E k \in 1..Len(MATCH_COLORS) : x = MATCH_COLORS[k])

\* C10: highlighted is the input with the k-th match (0-based) wrapped in palette
\* color k mod 6, bold and reset, everything else copied unchanged: without the
\* markers it is the input, and with no match it equals the input.
C10_HighlightWraps ==
    tpc = "returned" =>
        /\ Strip(highlighted) = input
        /\ Len(matches) = 0 => highlighted = input
        /\ Len(highlighted) = Len(input) + 3 * Len(matches)
        /\ ColorsOf(highlighted) = [k \in 1..Len(matches) |-> MATCH_COLORS[((k - 1) % 6) + 1]]
        /\ \A k \in 1..Len(matches) :
              LET at == matches[k].index + 3 * (k - 1)
              IN SubSeq(highlighted, at + 1, at + Len(matches[k].full) + 3)
                     = <<MATCH_COLORS[((k - 1) % 6) + 1], c.bold>>
                       \o matches[k].full \o <<c.reset>>

\* a returned result with more matches than palette colors, one of them not empty
C10_Witness ==
    /\ tpc = "returned"
    /\ Len(matches) > Len(MATCH_COLORS)
    /\ \E k \in 1..Len(matches) : matches[k].full # <<>>
    /\ highlighted # input

----------------------------------------------------------------------------
(* Properties of main, under SpecMain *)

\* explain mode with neither positional test strings nor a bulk file
ExplainOnly == opts.explain /\ opts.strings = <<>> /\ opts.bulk = <<>>

\* C5: a run that exits with code 1 has written nothing to standard output, and
\* a run that went on to test strings and exits with code 0 has evaluated all.
C5_NoPartialOutput ==
    pc = "exit" =>
        /\ exitCode = 1 => stdout = <<>>
        /\ (exitCode = 0 /\ ~opts.help /\ ~ExplainOnly) =>
              Len(allResults) = Len(strings) /\ Len(strings) > 0

\* C6: with --json a run that tested its strings has written to standard output
\* one JSON document and nothing else but empty lines, no color markers, the
\* document holding one {input, matchCount, matches} entry per string in order.
C6_JsonStdout ==
    (pc = "exit" /\ exitCode = 0 /\ opts.json /\ ~opts.help /\ Len(strings) > 0) =>
        /\ \A k \in 1..Len(stdout) :
              stdout[k].kind \in {"json", "blank"} /\ ~stdout[k].colored
        /\ Cardinality({k \in 1..Len(stdout) : stdout[k].kind = "json"}) = 1
        /\ \A k \in 1..Len(stdout) :
              stdout[k].kind = "json" =>
                  /\ Len(stdout[k].data) = Len(strings)
                  /\ \A j \in 1..Len(strings) :
                        /\ DOMAIN stdout[k].data[j] = {"input", "matchCount", "matches"}
                        /\ stdout[k].data[j].input = strings[j]
                        /\ stdout[k].data[j].matchCount = Len(stdout[k].data[j].matches)

\* C7: help wins over everything and exits 0; else a missing pattern exits 1;
\* else explain mode with nothing to test prints only the breakdown and exits 0
\* without compiling the pattern; else an empty list of test strings exits 1.
C7_ExitPriority ==
    /\ (pc \notin {"start", "checks", "exit"}) =>
          ~opts.help /\ opts.pattern # <<>> /\ ~ExplainOnly
    /\ pc = "exit" =>
          IF opts.help
          THEN exitCode = 0 /\ stdout = <<HELP>> /\ stderr = <<>>
          ELSE IF opts.pattern = <<>>
          THEN exitCode = 1 /\ stdout = <<>>
          ELSE IF ExplainOnly
          THEN /\ exitCode = 0
               /\ stdout = ExplainOutput(opts.pattern)
               /\ stderr = <<>>
               /\ allResults = <<>>
          ELSE strings = <<>> => exitCode = 1

\* an explain-only run on a pattern the regex facility rejects, exited with 0
C7_Witness ==
    /\ pc = "exit"
    /\ ExplainOnly /\ ~opts.help
    /\ opts.pattern = <<"*">>
    /\ ~NewRegExp(opts.pattern, opts.flags).ok
    /\ exitCode = 0

====
